---- MODULE Spec2Model ----
(***************************************************************************)
(* Model of src/code_executor.py: the execution host                       *)
(* execute_code_securely with its two isolation strategies (the in-process *)
(* SIGALRM deadline of execution_timeout and the child process of          *)
(* _execute_in_process), the static validator validate_code and the        *)
(* resource limiter set_resource_limits.                                   *)
(*                                                                         *)
(* One request is served per behaviour.  Init draws the request (script,   *)
(* timeout, initial global_variables) and the platform (SIGALRM present,   *)
(* resource module present, alarm the caller had pending); the outcome of  *)
(* setrlimit and the multiprocessing start method are drawn where the host *)
(* meets them.  Every line of the host that changes state is one action;   *)
(* the deadline signal, the CPU ceiling and the child process are          *)
(* concurrent actions.                                                     *)
(***************************************************************************)
EXTENDS Integers, Sequences, FiniteSets, TLC

(* ---------------------------- bounds ----------------------------------- *)
MaxScriptLen == 2
MaxTimeout == 2
MaxStmts == 2
MaxDepth == 1
MaxFragments == 3

(* ------------------------ program constants ---------------------------- *)
DEFAULT_MEMORY_LIMIT_MB == 512
OldAlarmSeconds == 7

DANGEROUS_IMPORTS ==
    {"os", "sys", "subprocess", "socket", "requests", "urllib",
     "ftplib", "smtplib", "telnetlib", "pickle", "marshal", "eval",
     "exec", "compile", "__import__", "open", "input", "raw_input",
     "reload", "exit", "quit"}

(* declared at lines 248-252 and read nowhere in the module *)
DANGEROUS_NODE_TYPES ==
    {"Import", "ImportFrom", "Call", "Lambda", "FunctionDef",
     "ClassDef", "AsyncFunctionDef", "Delete"}

BlockedCallNames == {"eval", "exec", "compile", "__import__", "open"}

(* ------------------------------ values --------------------------------- *)
Unbound == "<unbound>"
PyNone == "None"
Names == {"result", "x"}
EmptyDict == [n \in Names |-> Unbound]

(* error messages: the format string and what is substituted into it *)
Message(text, etype, detail, n) ==
    [text |-> text, etype |-> etype, detail |-> detail, n |-> n]
NoMessage == Message("None", "", "", 0)

Outcome(success, error, result) ==
    [success |-> success, error |-> error, result |-> result]
NoOutcome == Outcome(FALSE, Message("<no outcome>", "", "", 0), Unbound)

Range(f) == {f[i] : i \in DOMAIN f}

(* dict.get(name): None when the name is not bound *)
Get(d, n) == IF d[n] = Unbound THEN PyNone ELSE d[n]

(* ---------------------------- syntax trees ----------------------------- *)
(* A node of the tree ast.parse builds: its class, the one string field    *)
(* the validator reads (alias.name, ImportFrom.module, Name.id,            *)
(* Attribute.attr) and its child nodes in the order ast.iter_child_nodes   *)
(* yields them.                                                            *)
Node(op, arg, body) == [op |-> op, arg |-> arg, body |-> body]
Name(id) == Node("Name", id, <<>>)
Attribute(value, attr) == Node("Attribute", attr, <<value>>)
Call(func, args) == Node("Call", "", <<func>> \o args)
Expr(value) == Node("Expr", "", <<value>>)
alias(name) == Node("alias", name, <<>>)
Import(names) == Node("Import", "", [i \in DOMAIN names |-> alias(names[i])])
(* module is "" for `from . import name`, where node.module is None *)
ImportFrom(module, names) ==
    Node("ImportFrom", module, [i \in DOMAIN names |-> alias(names[i])])
FunctionDef(body) == Node("FunctionDef", "f", body)
Module(body) == Node("Module", "", body)

(* ------------------------------ scripts -------------------------------- *)
(* A script is a sequence of top-level statements.                         *)
(*   Bind n     n = <value>                                                *)
(*   Raise t    a statement that raises t (1/0, an allocation beyond the   *)
(*              address-space ceiling)                                     *)
(*   Loop       while True: <work>                                         *)
(*   TryLoop    while True: try: (while True: <work>) / except: pass       *)
(*   Import     import m                                                   *)
(*   Expr       an expression statement, here a call f(...)                *)
(*   Reach n    n = ().__class__.__base__.__subclasses__()[k]              *)
(*                      .__init__.__globals__['sys'].modules['os']         *)
(*              the walk from a literal to a class whose methods were      *)
(*              defined in the os module                                   *)
(*   Bad e      text on which ast.parse raises e                           *)
(*   Blank      a line of white space                                      *)
Stmt(op, arg) == Node(op, arg, <<>>)
Reach(n) ==
    Node("Reach", n, <<Call(Attribute(Name("()"), "__subclasses__"), <<>>)>>)
Stmts ==
    {Stmt("Bind", "result"), Stmt("Bind", "x"),
     Stmt("Raise", "ZeroDivisionError"), Stmt("Raise", "MemoryError"),
     Stmt("Loop", ""), Stmt("TryLoop", ""),
     Import(<<"os">>), Import(<<"math">>),
     Expr(Call(Name("eval"), <<>>)), Reach("x"),
     Stmt("Bad", "SyntaxError"), Stmt("Bad", "RecursionError")}
Scripts == UNION {[1..n -> Stmts] : n \in 0..MaxScriptLen}
ScriptValue == "v"
OsModule == "<module 'os'>"
(* the value a statement binds to its target *)
Bound(s) == IF s.op = "Reach" THEN OsModule ELSE ScriptValue
Binds(s) == s.op \in {"Bind", "Reach"}
StaleValue == "stale"
InitialGlobals == {EmptyDict, [EmptyDict EXCEPT !["result"] = StaleValue]}

(* the exception a statement raises when it is evaluated, "none" if none.  *)
(* SAFE_BUILTINS holds no __import__, so an import statement that passed   *)
(* the validator raises ImportError.                                       *)
StmtRaises(s) ==
    CASE s.op = "Raise" -> s.arg
      [] s.op = "Import" -> "ImportError"
      [] OTHER -> "none"

(* str(e) of the exceptions the statements raise *)
ExcText(t) ==
    CASE t = "ZeroDivisionError" -> "division by zero"
      [] t = "ImportError" -> "__import__ not found"
      [] OTHER -> ""

Spins(s) == s.op \in {"Loop", "TryLoop"}

(* ---------------------------- validate_code ---------------------------- *)
(* name.split('.') for the dotted names that occur *)
SplitDot(name) ==
    CASE name = "os.path" -> <<"os", "path">>
      [] OTHER -> <<name>>

module_name_Whole(name) == name
(* name.split('.')[0], lines 292 and 299 *)
module_name(name) == SplitDot(name)[1]

(* the first alias of an Import node whose top-level module is denied, 0   *)
(* when there is none: the loop of lines 291-294                           *)
FirstDenied(node) ==
    LET denied == {i \in DOMAIN node.body :
                      module_name(node.body[i].arg) \in DANGEROUS_IMPORTS}
    IN  IF denied = {} THEN 0
        ELSE CHOOSE i \in denied : \A j \in denied : i <= j

(* line 312: the names checked when the callee is an attribute access *)
AttributeCallNames == {"eval", "exec"}

Accepted == <<TRUE, NoMessage, "none">>
Rejected(text, what) == <<FALSE, Message(text, "", what, 0), "none">>

CheckNode_ByNodeType(node) ==
    IF node.op \in {"Import", "ImportFrom", "Call", "Lambda", "FunctionDef",
                    "ClassDef", "AsyncFunctionDef", "Delete"}
    THEN Rejected("'%s' is not allowed for security reasons", node.op)
    ELSE Accepted

(* the body of the loop over ast.walk(tree), lines 289-313, for one node *)
CheckNode(node) ==
    CASE node.op = "Import" /\ FirstDenied(node) # 0 ->
            Rejected("Import of '%s' is not allowed for security reasons",
                     module_name(node.body[FirstDenied(node)].arg))
      [] node.op = "ImportFrom" /\ node.arg # ""
                                /\ module_name(node.arg) \in DANGEROUS_IMPORTS ->
            Rejected("Import from '%s' is not allowed for security reasons",
                     module_name(node.arg))
      [] node.op = "Call" /\ node.body[1].op = "Name"
                          /\ node.body[1].arg \in BlockedCallNames ->
            Rejected("Call to '%s' is not allowed for security reasons",
                     node.body[1].arg)
      [] node.op = "Call" /\ node.body[1].op = "Attribute"
                          /\ node.body[1].arg \in AttributeCallNames ->
            Rejected("Call to '%s' is not allowed for security reasons",
                     node.body[1].arg)
      [] OTHER -> Accepted

(* ast.walk: breadth first, todo is its deque; the loop returns at the     *)
(* first node that is refused                                              *)
RECURSIVE Walk(_)
Walk(todo) ==
    IF todo = <<>> THEN Accepted
    ELSE LET refusal == CheckNode(Head(todo))
         IN  IF ~refusal[1] THEN refusal
             ELSE Walk(Tail(todo) \o Head(todo).body)

(* `not code or not code.strip()`, line 279 *)
IsBlank(c) == \A i \in DOMAIN c : c[i].op = "Blank"

(* ast.parse(code): the exception it raises, "none" when the text parses *)
ParseError(c) ==
    IF \E i \in DOMAIN c : c[i].op = "Bad"
    THEN c[CHOOSE i \in DOMAIN c :
              c[i].op = "Bad" /\ \A j \in DOMAIN c : c[j].op = "Bad" => i <= j].arg
    ELSE "none"
ast_parse(c) == Module(SelectSeq(c, LAMBDA s : s.op # "Blank"))

(* <<is_valid, error_message, exception that leaves validate_code>>: only  *)
(* SyntaxError is caught at line 285                                       *)
validate_code(c) ==
    IF IsBlank(c) THEN Accepted
    ELSE IF ParseError(c) = "SyntaxError"
    THEN <<FALSE, Message("Syntax error in generated code: %s", "SyntaxError", "", 0),
           "none">>
    ELSE IF ParseError(c) # "none"
    THEN <<FALSE, NoMessage, ParseError(c)>>
    ELSE Walk(<<ast_parse(c)>>)

(* ------------------------- outcomes of the host ------------------------ *)
TimedOutMessage(t) ==
    Message("Code execution timed out after %d seconds", "", "", t)

InProcessOutcome_KeepsResult(e, d, t) ==
    CASE e = "none" -> Outcome(TRUE, NoMessage, Get(d, "result"))
      [] e = "TimeoutException" -> Outcome(FALSE, TimedOutMessage(t), PyNone)
      [] e = "MemoryError" ->
            Outcome(FALSE, Message("Code exceeded memory limit of %d MB", "", "",
                                   DEFAULT_MEMORY_LIMIT_MB), PyNone)
      [] OTHER ->
            Outcome(FALSE, Message("Error executing code: %s: %s", e, ExcText(e), 0),
                    Get(d, "result"))

(* the except clauses of execute_code_securely, lines 423-438 *)
InProcessOutcome(e, d, t) ==
    CASE e = "none" -> Outcome(TRUE, NoMessage, Get(d, "result"))
      [] e = "TimeoutException" -> Outcome(FALSE, TimedOutMessage(t), PyNone)
      [] e = "MemoryError" ->
            Outcome(FALSE, Message("Code exceeded memory limit of %d MB", "", "",
                                   DEFAULT_MEMORY_LIMIT_MB), PyNone)
      [] OTHER ->
            Outcome(FALSE, Message("Error executing code: %s: %s", e, ExcText(e), 0),
                    PyNone)

(* ---------------------- create_restricted_globals ---------------------- *)
SAFE_BUILTINS ==
    {"abs", "all", "any", "bin", "bool", "bytearray", "bytes",
     "chr", "complex", "dict", "divmod", "enumerate", "filter",
     "float", "format", "frozenset", "hasattr", "hash", "hex",
     "id", "int", "isinstance", "issubclass", "iter", "len",
     "list", "map", "max", "min", "next", "oct", "ord", "pow",
     "range", "repr", "reversed", "round", "set", "slice",
     "sorted", "str", "sum", "tuple", "type", "vars", "zip",
     "print"}

(* names of the interpreter's builtins module, `__builtins__` at line 345: *)
(* every name of SAFE_BUILTINS and, among others, these                    *)
Builtins ==
    SAFE_BUILTINS \cup
    {"open", "eval", "exec", "compile", "__import__", "input", "getattr",
     "setattr", "delattr", "globals", "locals", "breakpoint", "memoryview",
     "object", "super", "exit", "quit", "help"}
Builtin(n) == <<"built-in", n>>

CapabilityNames == {"pl", "pd", "st", "gpd", "alt", "px", "go", "folium"}
(* what a caller passes for a capability: None or a module object *)
Handles == {"<module A>", "<module B>"}
NoCapabilities == [c \in CapabilityNames |-> PyNone]
EmptyNamespace == [k \in {} |-> PyNone]

create_restricted_globals_BindsAll(caps) ==
    [k \in {"__builtins__"} \cup CapabilityNames |->
        IF k = "__builtins__"
        THEN [n \in SAFE_BUILTINS \cap Builtins |-> Builtin(n)]
        ELSE caps[k]]

(* lines 344-364: a dictionary, here a function from its keys *)
create_restricted_globals(caps) ==
    LET restricted_builtins == [n \in {m \in SAFE_BUILTINS : m \in Builtins} |-> Builtin(n)]
    IN  [k \in {"__builtins__"} \cup {c \in CapabilityNames : caps[c] # PyNone} |->
            IF k = "__builtins__" THEN restricted_builtins ELSE caps[k]]

NotCalled == <<FALSE, NoMessage, "not called">>

(* ------------------------- validate_user_input ------------------------- *)
(* A text is a sequence of fragments.  Every fragment is a piece of text   *)
(* in which no suspicious pattern begins or ends, except as the patterns   *)
(* are spelt below, so a pattern occurs in the text exactly when its       *)
(* spelling occurs in the sequence.                                        *)
MAX_INPUT_LENGTH == 10000
Filler == "aaa...a"
Fragments ==
    {" ", "mean", "ev", "al(", "EV", Filler, "__import__", "exec(",
     "compile(", "subprocess.", "os.system", "os.popen"}
Texts == UNION {[1..n -> Fragments] : n \in 0..MaxFragments}

(* len() of a fragment; the filler is 9997 letters *)
FragmentLength(f) ==
    CASE f = " " -> 1
      [] f = "mean" -> 4
      [] f \in {"ev", "EV"} -> 2
      [] f = "al(" -> 3
      [] f = Filler -> 9997
      [] f = "__import__" -> 10
      [] f = "exec(" -> 5
      [] f = "compile(" -> 8
      [] f = "subprocess." -> 11
      [] f = "os.system" -> 9
      [] f = "os.popen" -> 8
RECURSIVE TextLength(_)
TextLength(t) == IF t = <<>> THEN 0 ELSE FragmentLength(Head(t)) + TextLength(Tail(t))

lower_AsIs(f) == f
(* str.lower() of a fragment, line 473 *)
lower(f) == IF f = "EV" THEN "ev" ELSE f
lower_input(t) == [i \in DOMAIN t |-> lower(t[i])]

(* `not user_input or not user_input.strip()`, line 455 *)
IsEmptyInput(t) == \A i \in DOMAIN t : t[i] = " "

(* lines 463-471, in the order of the list *)
Pattern(text, spelt) == [text |-> text, spelt |-> spelt]
suspicious_patterns ==
    <<Pattern("__import__", <<"__import__">>),
      Pattern("eval(", <<"ev", "al(">>),
      Pattern("exec(", <<"exec(">>),
      Pattern("compile(", <<"compile(">>),
      Pattern("subprocess.", <<"subprocess.">>),
      Pattern("os.system", <<"os.system">>),
      Pattern("os.popen", <<"os.popen">>)>>

(* `pattern in lower_input`, line 475 *)
Occurs(spelt, t) ==
    \E i \in 1..(Len(t) - Len(spelt) + 1) : SubSeq(t, i, i + Len(spelt) - 1) = spelt

validate_user_input(t) ==
    IF IsEmptyInput(t)
    THEN <<FALSE, Message("Input cannot be empty", "", "", 0)>>
    ELSE IF TextLength(t) > MAX_INPUT_LENGTH
    THEN <<FALSE, Message("Input is too long (max %d characters)", "", "",
                          MAX_INPUT_LENGTH)>>
    ELSE LET found == {k \in DOMAIN suspicious_patterns :
                          Occurs(suspicious_patterns[k].spelt, lower_input(t))}
         IN  IF found = {} THEN <<TRUE, NoMessage>>
             ELSE <<FALSE,
                    Message("Input contains potentially dangerous pattern: '%s'", "",
                            suspicious_patterns[CHOOSE k \in found :
                                                   \A j \in found : k <= j].text,
                            0)>>

VARIABLES
    code,        \* the script of the request
    timeout,     \* the request's timeout in seconds
    pc,          \* position of the host
    gv,          \* the caller's global_variables dictionary
    gv0,         \* global_variables as it was before the call
    outcome,     \* the tuple execute_code_securely returned
    handler,     \* the process's SIGALRM handler
    alarm,       \* seconds of the pending alarm, 0 when none
    old_alarm,   \* execution_timeout's old_alarm
    hostLimits,  \* rlimits in force in the host process
    limitsOK,    \* what set_resource_limits returned to the host
    ip,          \* index of the script's next statement
    spin,        \* flips on every iteration of a script's loop
    exc,         \* exception in flight in the host
    elapsed,     \* the timeout elapsed while the script was running
    trace,       \* calls the host made, in order
    manager,     \* the multiprocessing.Manager process
    return_dict, \* the manager's shared dictionary
    child,       \* the child process running target_func
    exitcode,    \* the child's exit status
    local_vars,  \* the child's local_vars dictionary
    childLimits, \* rlimits in force in the child
    termSent,    \* the child has SIGTERM pending
    sigalrm,     \* hasattr(signal, 'SIGALRM') on this platform
    RESOURCE_AVAILABLE,  \* the resource module could be imported
    scriptErr,   \* the error the script raised and did not catch
    lib,         \* the library function called on its own, and whether it returned
    source,      \* the argument of validate_code
    verdict,     \* what validate_code returned, or the exception it raised
    capabilities,        \* the arguments of create_restricted_globals
    restricted_globals,  \* what create_restricted_globals returned
    user_input,  \* the text submitted to the chat, the argument of validate_user_input
    chat,        \* position of home_page in its chat flow
    chat_history,        \* st.session_state.chat_history
    agent_inputs,        \* the texts passed to the agent, in order
    executions   \* number of calls of execute_code_securely from the chat

platVars == <<sigalrm, RESOURCE_AVAILABLE>>
libVars == <<lib, source, verdict, capabilities, restricted_globals>>
chatVars == <<user_input, chat, chat_history, agent_inputs, executions>>
childVars == <<manager, return_dict, child, exitcode, local_vars, childLimits, termSent>>

vars == <<code, timeout, pc, gv, gv0, outcome, handler, alarm,
          old_alarm, hostLimits, limitsOK, ip, spin, exc, elapsed, trace,
          manager, return_dict, child, exitcode, local_vars, childLimits, termSent,
          sigalrm, RESOURCE_AVAILABLE, scriptErr,
          lib, source, verdict, capabilities, restricted_globals,
          user_input, chat, chat_history, agent_inputs, executions>>

NoLimits == [as |-> FALSE, cpu |-> FALSE]

(* return_dict: 'success' is absent until the child writes it *)
ReturnDict(success, result, globals, error) ==
    [success |-> success, result |-> result, globals |-> globals, error |-> error]
EmptyReturnDict == ReturnDict("absent", PyNone, EmptyDict, NoMessage)

Init ==
    /\ code \in Scripts
    /\ timeout \in 1..MaxTimeout
    /\ gv0 \in InitialGlobals
    /\ gv = gv0
    /\ sigalrm \in BOOLEAN
    /\ RESOURCE_AVAILABLE \in BOOLEAN
    /\ scriptErr = "none"
    /\ alarm \in IF sigalrm THEN {0, OldAlarmSeconds} ELSE {0}
    /\ pc = "validate"
    /\ outcome = NoOutcome
    /\ handler = "old_handler"
    /\ old_alarm = 0
    /\ hostLimits = NoLimits
    /\ limitsOK = "not called"
    /\ ip = 1
    /\ spin = FALSE
    /\ exc = "none"
    /\ elapsed = FALSE
    /\ trace = <<>>
    /\ manager = "none"
    /\ return_dict = EmptyReturnDict
    /\ child = "none"
    /\ exitcode = 0
    /\ local_vars = EmptyDict
    /\ childLimits = NoLimits
    /\ termSent = FALSE
    /\ lib = "idle"
    /\ source = <<>>
    /\ verdict = NotCalled
    /\ capabilities = NoCapabilities
    /\ restricted_globals = EmptyNamespace
    /\ user_input = <<>>
    /\ chat = "idle"
    /\ chat_history = <<>>
    /\ agent_inputs = <<>>
    /\ executions = 0

Return(o) == pc' = "done" /\ outcome' = o

(* ---------------- execute_code_securely, lines 400-415 ----------------- *)
AfterValidate_Proceeds(is_valid) == "limits"
AfterValidate(is_valid) == IF is_valid THEN "limits" ELSE "done"

(* validate_code is called outside every try block: what it raises leaves *)
(* execute_code_securely                                                   *)
Validate ==
    /\ pc = "validate"
    /\ trace' = Append(trace, "validate_code")
    /\ IF validate_code(code)[3] # "none"
       THEN pc' = "raised" /\ exc' = validate_code(code)[3] /\ outcome' = outcome
       ELSE /\ pc' = AfterValidate(validate_code(code)[1])
            /\ exc' = exc
            /\ outcome' = IF validate_code(code)[1]
                          THEN outcome
                          ELSE Outcome(FALSE, validate_code(code)[2], PyNone)
    /\ UNCHANGED <<childVars, platVars, libVars, chatVars, scriptErr, code, timeout, gv, gv0, handler, alarm, old_alarm,
                   hostLimits, limitsOK, ip, spin, elapsed>>

(* set_resource_limits, lines 60-81: the facility is missing, or both      *)
(* setrlimit calls succeed, or the first or the second raises.             *)
LimiterResults(available) ==
    IF available THEN {"ok", "as fails", "cpu fails"} ELSE {"unavailable"}
set_resource_limits_Silent(r, cur) ==
    CASE r = "ok" -> <<TRUE, [as |-> TRUE, cpu |-> TRUE], NoMessage>>
      [] r = "cpu fails" -> <<TRUE, [cur EXCEPT !.as = TRUE], NoMessage>>
      [] OTHER -> <<TRUE, cur, NoMessage>>

(* returns <<success, the rlimits now in force, error message>>; on a      *)
(* process that imported resource (RESOURCE_AVAILABLE) sys.modules holds   *)
(* the module, so the test of line 68 succeeds                             *)
set_resource_limits(r, cur) ==
    CASE r = "unavailable" ->
            <<FALSE, cur,
              Message("Resource limits not available on this platform", "", "", 0)>>
      [] r = "ok" -> <<TRUE, [as |-> TRUE, cpu |-> TRUE], NoMessage>>
      [] r = "as fails" ->
            <<FALSE, cur,
              Message("Failed to set resource limits: %s", "ValueError", "RLIMIT_AS", 0)>>
      [] r = "cpu fails" ->
            <<FALSE, [cur EXCEPT !.as = TRUE],
              Message("Failed to set resource limits: %s", "ValueError", "RLIMIT_CPU", 0)>>

(* line 415 discards the value returned; line 418 picks the strategy by    *)
(* hasattr(signal, 'SIGALRM') alone                                        *)
SetResourceLimits ==
    /\ pc = "limits"
    /\ \E r \in LimiterResults(RESOURCE_AVAILABLE) :
          /\ limitsOK' = IF set_resource_limits(r, hostLimits)[1] THEN "True" ELSE "False"
          /\ hostLimits' = set_resource_limits(r, hostLimits)[2]
          /\ pc' = IF sigalrm THEN "install" ELSE "manager"
    /\ trace' = Append(trace, "set_resource_limits")
    /\ UNCHANGED <<childVars, platVars, libVars, chatVars, scriptErr, code, timeout, gv, gv0, outcome, handler, alarm, old_alarm,
                   ip, spin, exc, elapsed>>

(* -------------------- execution_timeout, lines 146-155 ----------------- *)
InstallHandler ==
    /\ pc = "install"
    /\ handler' = "timeout_handler"
    /\ pc' = "arm"
    /\ UNCHANGED <<childVars, platVars, libVars, chatVars, scriptErr, code, timeout, gv, gv0, outcome, alarm, old_alarm, hostLimits,
                   limitsOK, ip, spin, exc, elapsed, trace>>

ArmAlarm ==
    /\ pc = "arm"
    /\ old_alarm' = alarm
    /\ alarm' = timeout
    /\ pc' = "enter"
    /\ trace' = Append(trace, "signal.alarm")
    /\ UNCHANGED <<childVars, platVars, libVars, chatVars, scriptErr, code, timeout, gv, gv0, outcome, handler, hostLimits,
                   limitsOK, ip, spin, exc, elapsed>>

(* the generator reaches its yield inside try; line 421 calls exec *)
EnterTry ==
    /\ pc = "enter"
    /\ pc' = "exec"
    /\ trace' = Append(trace, "exec")
    /\ UNCHANGED <<childVars, platVars, libVars, chatVars, scriptErr, code, timeout, gv, gv0, outcome, handler, alarm, old_alarm,
                   hostLimits, limitsOK, ip, spin, exc, elapsed>>

(* exec(code, restricted_globals, global_variables): the script's locals   *)
(* are the caller's dictionary                                             *)
ExecStmt ==
    /\ pc = "exec"
    /\ ip <= Len(code)
    /\ LET s == code[ip] IN
         /\ gv' = IF Binds(s) THEN [gv EXCEPT ![s.arg] = Bound(s)] ELSE gv
         /\ spin' = IF Spins(s) THEN ~spin ELSE spin
         /\ scriptErr' = StmtRaises(s)
         /\ IF StmtRaises(s) # "none"
            THEN exc' = StmtRaises(s) /\ pc' = "finally" /\ ip' = ip
            ELSE exc' = exc /\ pc' = pc /\ ip' = IF Spins(s) THEN ip ELSE ip + 1
    /\ UNCHANGED <<childVars, platVars, libVars, chatVars, code, timeout, gv0, outcome, handler, alarm, old_alarm,
                   hostLimits, limitsOK, elapsed, trace>>

ExecDone ==
    /\ pc = "exec"
    /\ ip > Len(code)
    /\ pc' = "finally"
    /\ UNCHANGED <<childVars, platVars, libVars, chatVars, scriptErr, code, timeout, gv, gv0, outcome, handler, alarm, old_alarm,
                   hostLimits, limitsOK, ip, spin, exc, elapsed, trace>>

FinallyDisarm ==
    /\ pc = "finally"
    /\ alarm' = 0
    /\ pc' = "restore"
    /\ UNCHANGED <<childVars, platVars, libVars, chatVars, scriptErr, code, timeout, gv, gv0, outcome, handler, old_alarm,
                   hostLimits, limitsOK, ip, spin, exc, elapsed, trace>>

RestoreHandler ==
    /\ pc = "restore"
    /\ handler' = "old_handler"
    /\ pc' = "rearm"
    /\ UNCHANGED <<childVars, platVars, libVars, chatVars, scriptErr, code, timeout, gv, gv0, outcome, alarm, old_alarm,
                   hostLimits, limitsOK, ip, spin, exc, elapsed, trace>>

RearmOld ==
    /\ pc = "rearm"
    /\ alarm' = IF old_alarm > 0 THEN old_alarm ELSE alarm
    /\ pc' = "except"
    /\ UNCHANGED <<childVars, platVars, libVars, chatVars, scriptErr, code, timeout, gv, gv0, outcome, handler, old_alarm,
                   hostLimits, limitsOK, ip, spin, exc, elapsed, trace>>

(* lines 423-438 *)
ReturnInProcess ==
    /\ pc = "except"
    /\ Return(InProcessOutcome(exc, gv, timeout))
    /\ UNCHANGED <<childVars, platVars, libVars, chatVars, scriptErr, code, timeout, gv, gv0, handler, alarm, old_alarm,
                   hostLimits, limitsOK, ip, spin, exc, elapsed, trace>>

(* SIGALRM is delivered while timeout_handler is installed: the handler    *)
(* raises TimeoutException in whatever the main thread is executing.       *)
(*   before the generator's try (lines 147-149): nothing of the finally    *)
(*     block runs, the exception leaves __enter__ into the host's try;     *)
(*   in the script: a script inside its own try/except swallows it,        *)
(*     otherwise it unwinds exec into the finally block;                   *)
(*   in the finally block before the alarm is cancelled: the rest of the   *)
(*     block is skipped and the exception replaces the one in flight.      *)
AlarmFires ==
    /\ alarm > 0
    /\ handler = "timeout_handler"
    /\ pc \in {"arm", "enter", "exec", "finally"}
    /\ alarm' = 0
    /\ IF pc = "exec" /\ ip <= Len(code) /\ code[ip].op = "TryLoop"
       THEN exc' = exc /\ pc' = pc
       ELSE exc' = "TimeoutException" /\ pc' = IF pc = "exec" THEN "finally" ELSE "except"
    /\ elapsed' = (elapsed \/ (pc = "exec" /\ ip <= Len(code)))
    /\ UNCHANGED <<childVars, platVars, libVars, chatVars, scriptErr, code, timeout, gv, gv0, outcome, handler, old_alarm,
                   hostLimits, limitsOK, ip, spin, trace>>

(* RLIMIT_CPU set in the host process: SIGXCPU's default action ends it *)
CpuLimitTrips ==
    /\ pc = "exec"
    /\ hostLimits.cpu
    /\ pc' = "killed"
    /\ UNCHANGED <<childVars, platVars, libVars, chatVars, scriptErr, code, timeout, gv, gv0, outcome, handler, alarm, old_alarm,
                   hostLimits, limitsOK, ip, spin, exc, elapsed, trace>>

(* ------------------- _execute_in_process, lines 187-237 ---------------- *)
hostVars == <<handler, alarm, old_alarm, hostLimits, limitsOK>>
ChildAlive == child \in {"limits", "exec", "exit"}
SIGTERM == 15
SIGKILL == 9
SIGXCPU == 24

(* lines 206-207 *)
StartManager ==
    /\ pc = "manager"
    /\ manager' = "alive"
    /\ return_dict' = EmptyReturnDict
    /\ pc' = "start"
    /\ trace' = Append(trace, "Manager")
    /\ UNCHANGED <<hostVars, platVars, libVars, chatVars, scriptErr, code, timeout, gv, gv0, outcome, ip, spin, exc, elapsed,
                   child, exitcode, local_vars, childLimits, termSent>>

(* lines 209-214.  target_func is a function local to _execute_in_process: *)
(* under the spawn start method Process.start() pickles it, which raises   *)
(* in the parent; no handler of the host catches it.  Under fork the child *)
(* starts with a copy of the parent's memory and inherits its rlimits.      *)
StartMethods == {"fork", "spawn"}
ProcessStart ==
    /\ pc = "start"
    /\ \E m \in StartMethods :
          IF m = "fork"
          THEN /\ child' = "limits"
               /\ childLimits' = hostLimits
               /\ pc' = "join"
               /\ exc' = exc
               /\ trace' = Append(trace, "process.start")
          ELSE /\ child' = child
               /\ childLimits' = childLimits
               /\ pc' = "raised"
               /\ exc' = "AttributeError"
               /\ trace' = trace
    /\ UNCHANGED <<hostVars, platVars, libVars, chatVars, scriptErr, code, timeout, gv, gv0, outcome, ip, spin, elapsed,
                   manager, return_dict, exitcode, local_vars, termSent>>

(* target_func, lines 189-190 *)
ChildSetLimits ==
    /\ child = "limits"
    /\ \E r \in LimiterResults(RESOURCE_AVAILABLE) :
          childLimits' = set_resource_limits(r, childLimits)[2]
    /\ child' = "exec"
    /\ UNCHANGED <<hostVars, platVars, libVars, chatVars, scriptErr, code, timeout, pc, gv, gv0, outcome, ip, spin, exc,
                   elapsed, trace, manager, return_dict, exitcode, local_vars, termSent>>

ChildError_Generic(e) == Message("%s: %s", e, ExcText(e), 0)

(* the except clauses of target_func, lines 199-204 *)
ChildError(e) ==
    IF e = "MemoryError"
    THEN Message("MemoryError: Code exceeded memory limit of %d MB", "", "",
                 DEFAULT_MEMORY_LIMIT_MB)
    ELSE Message("%s: %s", e, ExcText(e), 0)

(* target_func, lines 193-204: exec(code, restricted_globals, local_vars) *)
ChildStmt ==
    /\ child = "exec"
    /\ ip <= Len(code)
    /\ LET s == code[ip] IN
         /\ local_vars' = IF Binds(s)
                          THEN [local_vars EXCEPT ![s.arg] = Bound(s)]
                          ELSE local_vars
         /\ spin' = IF Spins(s) THEN ~spin ELSE spin
         /\ scriptErr' = StmtRaises(s)
         /\ IF StmtRaises(s) # "none"
            THEN /\ return_dict' = ReturnDict("False", return_dict.result,
                                              return_dict.globals,
                                              ChildError(StmtRaises(s)))
                 /\ child' = "exit"
                 /\ ip' = ip
            ELSE /\ return_dict' = return_dict
                 /\ child' = child
                 /\ ip' = IF Spins(s) THEN ip ELSE ip + 1
    /\ UNCHANGED <<hostVars, platVars, libVars, chatVars, code, timeout, pc, gv, gv0, outcome, exc, elapsed, trace,
                   manager, exitcode, childLimits, termSent>>

(* lines 195-198 *)
ChildDone ==
    /\ child = "exec"
    /\ ip > Len(code)
    /\ return_dict' = ReturnDict("True", Get(local_vars, "result"), local_vars,
                                 return_dict.error)
    /\ child' = "exit"
    /\ UNCHANGED <<hostVars, platVars, libVars, chatVars, scriptErr, code, timeout, pc, gv, gv0, outcome, ip, spin, exc,
                   elapsed, trace, manager, exitcode, local_vars, childLimits, termSent>>

(* target_func returned: the child exits with status 0 *)
ChildExit ==
    /\ child = "exit"
    /\ child' = "dead"
    /\ exitcode' = 0
    /\ UNCHANGED <<hostVars, platVars, libVars, chatVars, scriptErr, code, timeout, pc, gv, gv0, outcome, ip, spin, exc,
                   elapsed, trace, manager, return_dict, local_vars, childLimits, termSent>>

(* RLIMIT_CPU set in the child: SIGXCPU's default action ends it.  The     *)
(* child's CPU time starts at the fork, so it is the script's work that    *)
(* uses it up.                                                             *)
ChildCpuLimitTrips ==
    /\ child = "exec"
    /\ ip <= Len(code)
    /\ childLimits.cpu
    /\ child' = "dead"
    /\ exitcode' = -SIGXCPU
    /\ UNCHANGED <<hostVars, platVars, libVars, chatVars, scriptErr, code, timeout, pc, gv, gv0, outcome, ip, spin, exc,
                   elapsed, trace, manager, return_dict, local_vars, childLimits, termSent>>

(* the pending SIGTERM is delivered: the default action ends the child *)
ChildTerminated ==
    /\ termSent
    /\ ChildAlive
    /\ child' = "dead"
    /\ exitcode' = -SIGTERM
    /\ UNCHANGED <<hostVars, platVars, libVars, chatVars, scriptErr, code, timeout, pc, gv, gv0, outcome, ip, spin, exc,
                   elapsed, trace, manager, return_dict, local_vars, childLimits, termSent>>

(* process.join(timeout=...), lines 215 and 219: returns when the child    *)
(* has exited, reaping it, or when the time is up                          *)
JoinPcs == {"join", "join1"}
AfterJoin(p) == IF p = "join" THEN "alive1" ELSE "alive2"
JoinExited ==
    /\ pc \in JoinPcs
    /\ child = "dead"
    /\ child' = "reaped"
    /\ pc' = AfterJoin(pc)
    /\ trace' = Append(trace, IF pc = "join" THEN "join(timeout): exited"
                                             ELSE "join(1): exited")
    /\ UNCHANGED <<hostVars, platVars, libVars, chatVars, scriptErr, code, timeout, gv, gv0, outcome, ip, spin, exc,
                   elapsed, manager, return_dict, exitcode, local_vars,
                   childLimits, termSent>>

JoinTimesOut ==
    /\ pc \in JoinPcs
    /\ ChildAlive
    /\ pc' = AfterJoin(pc)
    /\ trace' = Append(trace, IF pc = "join" THEN "join(timeout): timed out"
                                             ELSE "join(1): timed out")
    /\ UNCHANGED <<hostVars, platVars, libVars, chatVars, scriptErr, code, timeout, gv, gv0, outcome, ip, spin, exc,
                   elapsed, manager, return_dict, child, exitcode, local_vars,
                   childLimits, termSent>>

(* process.is_alive(), lines 217 and 220: polls the child, reaping it when *)
(* it has exited                                                           *)
WhenAlive_KillFirst(p) == "kill"
WhenAlive(p) == IF p = "alive1" THEN "terminate" ELSE "kill"
WhenExited(p) == IF p = "alive1" THEN "exitcode" ELSE "timed out"
IsAlive ==
    /\ pc \in {"alive1", "alive2"}
    /\ IF ChildAlive
       THEN /\ pc' = WhenAlive(pc)
            /\ child' = child
            /\ elapsed' = TRUE
            /\ trace' = Append(trace, "is_alive: True")
       ELSE /\ pc' = WhenExited(pc)
            /\ child' = "reaped"
            /\ elapsed' = elapsed
            /\ trace' = Append(trace, "is_alive: False")
    /\ UNCHANGED <<hostVars, platVars, libVars, chatVars, scriptErr, code, timeout, gv, gv0, outcome, ip, spin, exc,
                   manager, return_dict, exitcode, local_vars,
                   childLimits, termSent>>

(* line 218 *)
Terminate ==
    /\ pc = "terminate"
    /\ termSent' = ChildAlive
    /\ pc' = "join1"
    /\ trace' = Append(trace, "terminate")
    /\ UNCHANGED <<hostVars, platVars, libVars, chatVars, scriptErr, code, timeout, gv, gv0, outcome, ip, spin, exc,
                   elapsed, manager, return_dict, child, exitcode, local_vars,
                   childLimits>>

(* line 221: SIGKILL cannot be delayed or ignored *)
Kill ==
    /\ pc = "kill"
    /\ child' = IF ChildAlive THEN "dead" ELSE child
    /\ exitcode' = IF ChildAlive THEN -SIGKILL ELSE exitcode
    /\ pc' = "join2"
    /\ trace' = Append(trace, "kill")
    /\ UNCHANGED <<hostVars, platVars, libVars, chatVars, scriptErr, code, timeout, gv, gv0, outcome, ip, spin, exc,
                   elapsed, manager, return_dict, local_vars, childLimits, termSent>>

JoinForever_NoReap ==
    /\ pc = "join2"
    /\ pc' = "timed out"
    /\ UNCHANGED <<hostVars, childVars, platVars, libVars, chatVars, scriptErr, code, timeout, gv, gv0,
                   outcome, ip, spin, exc, elapsed, trace>>

(* line 222: join() without a timeout returns only once the child exited *)
JoinForever ==
    /\ pc = "join2"
    /\ child = "dead"
    /\ child' = "reaped"
    /\ pc' = "timed out"
    /\ trace' = Append(trace, "join()")
    /\ UNCHANGED <<hostVars, platVars, libVars, chatVars, scriptErr, code, timeout, gv, gv0, outcome, ip, spin, exc,
                   elapsed, manager, return_dict, exitcode, local_vars,
                   childLimits, termSent>>

(* The source never calls manager.shutdown().  A return statement drops    *)
(* the frame's references to manager and return_dict, and the finalizer    *)
(* multiprocessing registered for the Manager then shuts its server        *)
(* process down.                                                           *)
ReleaseFrame(m) == IF m = "alive" THEN "shutdown" ELSE m

(* line 223 *)
ReturnTimedOut ==
    /\ pc = "timed out"
    /\ Return(Outcome(FALSE, TimedOutMessage(timeout), PyNone))
    /\ manager' = ReleaseFrame(manager)
    /\ UNCHANGED <<hostVars, platVars, libVars, chatVars, scriptErr, code, timeout, gv, gv0, ip, spin, exc, elapsed, trace,
                   return_dict, child, exitcode, local_vars, childLimits, termSent>>

ChildOutcome_TrustsChannel(code_, rd) ==
    IF rd.success = "False"
    THEN Outcome(FALSE, rd.error, PyNone)
    ELSE Outcome(TRUE, NoMessage, rd.result)

(* lines 225-237 *)
ChildOutcome(code_, rd) ==
    IF code_ # 0
    THEN Outcome(FALSE, Message("Code execution failed with exit code %d", "", "", code_),
                 PyNone)
    ELSE IF rd.success = "absent"
    THEN Outcome(FALSE, Message("Code execution failed unexpectedly", "", "", 0), PyNone)
    ELSE IF rd.success = "True"
    THEN Outcome(TRUE, NoMessage, rd.result)
    ELSE Outcome(FALSE,
                 IF rd.error = NoMessage THEN Message("Unknown error", "", "", 0)
                                         ELSE rd.error,
                 PyNone)

(* global_vars.update(return_dict['globals']), line 234 *)
Update_Replace(d, new) == new
Update(d, new) == [n \in Names |-> IF new[n] # Unbound THEN new[n] ELSE d[n]]

ReturnFromChild ==
    /\ pc = "exitcode"
    /\ Return(ChildOutcome(exitcode, return_dict))
    /\ gv' = IF ChildOutcome(exitcode, return_dict).success
             THEN Update(gv, return_dict.globals)
             ELSE gv
    /\ manager' = ReleaseFrame(manager)
    /\ UNCHANGED <<hostVars, platVars, libVars, chatVars, scriptErr, code, timeout, gv0, ip, spin, exc, elapsed, trace,
                   return_dict, child, exitcode, local_vars, childLimits, termSent>>

HostNext ==
    \/ Validate
    \/ SetResourceLimits
    \/ InstallHandler
    \/ ArmAlarm
    \/ EnterTry
    \/ ExecStmt
    \/ ExecDone
    \/ FinallyDisarm
    \/ RestoreHandler
    \/ RearmOld
    \/ ReturnInProcess
    \/ StartManager
    \/ ProcessStart
    \/ JoinExited
    \/ IsAlive
    \/ Terminate
    \/ Kill
    \/ JoinForever
    \/ ReturnTimedOut
    \/ ReturnFromChild

ChildNext ==
    \/ ChildSetLimits
    \/ ChildStmt
    \/ ChildDone
    \/ ChildExit
    \/ ChildTerminated

Next ==
    \/ HostNext
    \/ ChildNext
    \/ AlarmFires
    \/ JoinTimesOut
    \/ CpuLimitTrips
    \/ ChildCpuLimitTrips

Spec == Init /\ [][Next]_vars

(* time passes and every process that can run does *)
FairSpec ==
    /\ Spec
    /\ WF_vars(HostNext)
    /\ WF_vars(ChildNext)
    /\ WF_vars(AlarmFires)
    /\ WF_vars(JoinTimesOut)

(* ------------------- the library functions on their own ---------------- *)
(* validate_code and create_restricted_globals are pure: each is applied   *)
(* once to an argument drawn from a bounded set, with no request in        *)
(* progress.                                                               *)
SimpleStmts ==
    {Import(<<"os">>), Import(<<"math">>), Import(<<"math", "os">>),
     Import(<<"sys">>), Import(<<"os.path">>),
     ImportFrom("os.path", <<"join">>), ImportFrom("math", <<"pi">>),
     ImportFrom("", <<"x">>),
     Expr(Call(Name("eval"), <<>>)), Expr(Call(Name("len"), <<>>)),
     Expr(Call(Name("len"), <<Call(Name("open"), <<>>)>>)),
     Expr(Call(Attribute(Name("x"), "open"), <<>>)),
     Expr(Call(Attribute(Name("x"), "eval"), <<>>)),
     Expr(Call(Attribute(Name("x"), "mean"), <<>>)),
     Expr(Name("eval")), Stmt("Bind", "result")}
RECURSIVE StmtsOfDepth(_)
StmtsOfDepth(d) ==
    IF d = 0 THEN SimpleStmts
    ELSE StmtsOfDepth(d - 1) \cup {FunctionDef(<<s>>) : s \in StmtsOfDepth(d - 1)}
Lines ==
    StmtsOfDepth(MaxDepth) \cup
    {Stmt("Bad", "SyntaxError"), Stmt("Bad", "RecursionError"), Stmt("Blank", "")}
Sources == UNION {[1..n -> Lines] : n \in 0..MaxStmts}

LibInit ==
    /\ code = <<>> /\ timeout = 1 /\ gv0 = EmptyDict /\ gv = EmptyDict
    /\ sigalrm = TRUE /\ RESOURCE_AVAILABLE = TRUE
    /\ scriptErr = "none" /\ alarm = 0 /\ pc = "idle"
    /\ outcome = NoOutcome /\ handler = "old_handler" /\ old_alarm = 0
    /\ hostLimits = NoLimits /\ limitsOK = "not called"
    /\ ip = 1 /\ spin = FALSE /\ exc = "none" /\ elapsed = FALSE /\ trace = <<>>
    /\ manager = "none" /\ return_dict = EmptyReturnDict /\ child = "none"
    /\ exitcode = 0 /\ local_vars = EmptyDict /\ childLimits = NoLimits
    /\ termSent = FALSE
    /\ verdict = NotCalled
    /\ restricted_globals = EmptyNamespace
    /\ chat = "idle" /\ chat_history = <<>> /\ agent_inputs = <<>> /\ executions = 0
    /\ \/ /\ lib = "validate_code"
          /\ source \in Sources
          /\ capabilities = NoCapabilities
          /\ user_input = <<>>
       \/ /\ lib = "create_restricted_globals"
          /\ source = <<>>
          /\ capabilities \in [CapabilityNames -> Handles \cup {PyNone}]
          /\ user_input = <<>>
       \/ /\ lib = "validate_user_input"
          /\ source = <<>>
          /\ capabilities = NoCapabilities
          /\ user_input \in Texts

hostState == <<code, timeout, pc, gv, gv0, outcome, ip, spin, exc, elapsed, trace,
               scriptErr, hostVars, childVars, platVars>>

ValidateCode ==
    /\ lib = "validate_code"
    /\ verdict' = validate_code(source)
    /\ lib' = "validate_code returned"
    /\ UNCHANGED <<hostState, chatVars, source, capabilities, restricted_globals>>

CreateRestrictedGlobals ==
    /\ lib = "create_restricted_globals"
    /\ restricted_globals' = create_restricted_globals(capabilities)
    /\ lib' = "create_restricted_globals returned"
    /\ UNCHANGED <<hostState, chatVars, source, capabilities, verdict>>

ValidateUserInput ==
    /\ lib = "validate_user_input"
    /\ verdict' = validate_user_input(user_input)
    /\ lib' = "validate_user_input returned"
    /\ UNCHANGED <<hostState, chatVars, source, capabilities, restricted_globals>>

LibNext == ValidateCode \/ CreateRestrictedGlobals \/ ValidateUserInput

LibSpec == LibInit /\ [][LibNext]_vars

(* ------------------- the chat flow of home_page (src/app.py) ----------- *)
(* One run of the script after a submission to st.chat_input, lines        *)
(* 309-392.  The agent and execute_code_securely are seen from outside:    *)
(* what the agent answers, and whether either raises, is drawn where       *)
(* home_page meets it.                                                     *)
Entry(role, content) == [role |-> role, content |-> content]
Answer == <<"answer">>
(* the history a session holds before the submission *)
PriorHistories == {<<>>, <<Entry("user", <<"mean">>), Entry("assistant", Answer)>>}

ChatInit ==
    /\ code = <<>> /\ timeout = 1 /\ gv0 = EmptyDict /\ gv = EmptyDict
    /\ sigalrm = TRUE /\ RESOURCE_AVAILABLE = TRUE
    /\ scriptErr = "none" /\ alarm = 0 /\ pc = "idle"
    /\ outcome = NoOutcome /\ handler = "old_handler" /\ old_alarm = 0
    /\ hostLimits = NoLimits /\ limitsOK = "not called"
    /\ ip = 1 /\ spin = FALSE /\ exc = "none" /\ elapsed = FALSE /\ trace = <<>>
    /\ manager = "none" /\ return_dict = EmptyReturnDict /\ child = "none"
    /\ exitcode = 0 /\ local_vars = EmptyDict /\ childLimits = NoLimits
    /\ termSent = FALSE
    /\ lib = "idle" /\ source = <<>> /\ capabilities = NoCapabilities
    /\ restricted_globals = EmptyNamespace
    /\ verdict = NotCalled
    /\ user_input \in Texts
    /\ chat = "chat_input"
    /\ chat_history \in PriorHistories
    /\ agent_inputs = <<>>
    /\ executions = 0

libArgs == <<lib, source, capabilities, restricted_globals>>

(* line 311, `if user_input:` *)
ChatInput ==
    /\ chat = "chat_input"
    /\ chat' = IF user_input = <<>> THEN "analysis" ELSE "validate"
    /\ UNCHANGED <<hostState, libArgs, verdict, user_input, chat_history, agent_inputs,
                   executions>>

AfterInputCheck_Proceeds(is_valid) == "save"
(* lines 313-315: st.error and return *)
AfterInputCheck(is_valid) == IF is_valid THEN "save" ELSE "returned"

(* line 312 *)
ValidateInput ==
    /\ chat = "validate"
    /\ verdict' = validate_user_input(user_input)
    /\ chat' = AfterInputCheck(validate_user_input(user_input)[1])
    /\ UNCHANGED <<hostState, libArgs, user_input, chat_history, agent_inputs, executions>>

(* line 318 *)
SaveUserMessage ==
    /\ chat = "save"
    /\ chat_history' = Append(chat_history, Entry("user", user_input))
    /\ chat' = "agent"
    /\ UNCHANGED <<hostState, libArgs, verdict, user_input, agent_inputs, executions>>

(* lines 350-361: agent.run_sync(user_input) raises, or answers with or    *)
(* without code                                                            *)
AgentResponses == {"raises", "answer", "answer with code"}
CallAgent ==
    /\ chat = "agent"
    /\ agent_inputs' = Append(agent_inputs, user_input)
    /\ \E r \in AgentResponses :
          chat' = IF r = "raises" THEN "except" ELSE r
    /\ UNCHANGED <<hostState, libArgs, verdict, user_input, chat_history, executions>>

(* lines 363-369 *)
SaveAssistantMessage ==
    /\ chat \in {"answer", "answer with code"}
    /\ chat_history' = Append(chat_history, Entry("assistant", Answer))
    /\ chat' = IF chat = "answer with code" THEN "execute" ELSE "rerun"
    /\ UNCHANGED <<hostState, libArgs, verdict, user_input, agent_inputs, executions>>

(* lines 367-386: execute_code_securely returns, or raises into the        *)
(* handler of line 391                                                     *)
ExecuteCode ==
    /\ chat = "execute"
    /\ executions' = executions + 1
    /\ \E raised \in BOOLEAN : chat' = IF raised THEN "except" ELSE "rerun"
    /\ UNCHANGED <<hostState, libArgs, verdict, user_input, chat_history, agent_inputs>>

(* line 389, st.rerun(), and lines 391-392, st.error: the run goes on to   *)
(* the analysis panel or ends                                              *)
EndOfChat ==
    /\ chat \in {"rerun", "except"}
    /\ chat' = IF chat = "rerun" THEN "rerun requested" ELSE "analysis"
    /\ UNCHANGED <<hostState, libArgs, verdict, user_input, chat_history, agent_inputs,
                   executions>>

ChatNext ==
    \/ ChatInput
    \/ ValidateInput
    \/ SaveUserMessage
    \/ CallAgent
    \/ SaveAssistantMessage
    \/ ExecuteCode
    \/ EndOfChat

ChatSpec == ChatInit /\ [][ChatNext]_vars

(* ======================= the claims of the specification =============== *)
Valid == validate_code(code)[1]
Refused == LET v == validate_code(code) IN ~v[1] /\ v[3] = "none"
TimedOut == Outcome(FALSE, TimedOutMessage(timeout), PyNone)
Assigns(c, n) == \E i \in 1..Len(c) : c[i] = Stmt("Bind", n)
Called(f) == f \in Range(trace)

(* C1: when validate_code returns a negative verdict the outcome is        *)
(* (False, the validator's reason, None) and nothing of the execution      *)
(* phase happens: no limiter, no alarm, no evaluation, no child process.   *)
C1_RejectedNeverExecutes ==
    Refused =>
        /\ pc \in {"validate", "done"}
        /\ pc = "done" => outcome = Outcome(FALSE, validate_code(code)[2], PyNone)
        /\ Range(trace) \subseteq {"validate_code"}
        /\ hostLimits = NoLimits /\ limitsOK = "not called"
        /\ handler = "old_handler" /\ old_alarm = 0
        /\ ip = 1 /\ gv = gv0
        /\ child = "none" /\ manager = "none"

C1_Witness == pc = "done" /\ ~Valid /\ code[1].op = "Bind"

(* C2: every outcome returned, under either strategy and on every exit     *)
(* path, populates exactly one variant: success implies no error message;  *)
(* failure implies an error message and the result None.                   *)
C2_ExactlyOneVariant ==
    pc = "done" =>
        /\ outcome # NoOutcome
        /\ outcome.success => outcome.error = NoMessage
        /\ ~outcome.success => outcome.error # NoMessage /\ outcome.result = PyNone

C2_Witness ==
    /\ pc = "done" /\ ~outcome.success
    /\ gv["result"] = ScriptValue /\ exc = "ZeroDivisionError"

(* C3: once the timeout has elapsed with the script still running, the     *)
(* host eventually returns the TimedOut outcome.                           *)
C3_OverrunEndsTimedOut == elapsed ~> (pc = "done" /\ outcome = TimedOut)

(* C4: in the in-process strategy the alarm is armed before evaluation     *)
(* begins, and once evaluation was entered the host returns with the       *)
(* deadline alarm disarmed and the previous SIGALRM handler restored.      *)
C4_AlarmArmedAndCleanedUp ==
    /\ pc = "exec" => handler = "timeout_handler" /\ Called("signal.alarm")
    /\ (pc = "done" /\ Called("exec")) =>
            handler = "old_handler" /\ alarm = old_alarm

(* C5: no exception propagates out of execute_code_securely, and an        *)
(* uncaught error of the script (other than the memory error and the       *)
(* deadline) is returned as (False, message with the error's type name     *)
(* and text, None).                                                        *)
C5_ScriptErrorsReturnedAsData ==
    /\ pc # "raised"
    /\ (pc = "done" /\ scriptErr \notin {"none", "MemoryError"} /\ outcome # TimedOut) =>
            /\ ~outcome.success
            /\ outcome.error.etype = scriptErr
            /\ outcome.error.detail = ExcText(scriptErr)
            /\ outcome.result = PyNone

(* C6: a script that terminates normally yields Success with the value it  *)
(* assigned to `result`, and None when it assigned none, whatever          *)
(* global_variables held before the call.                                  *)
C6_SuccessValueIsScriptResult ==
    (pc = "done" /\ outcome.success) =>
        outcome.result = IF Assigns(code, "result") THEN ScriptValue ELSE PyNone

(* C7: when the execution of an accepted script fails (TimedOut,           *)
(* ResourceExceeded, RuntimeFailure) global_variables is as before the     *)
(* call.                                                                   *)
C7_FailureLeavesGlobalsUnchanged ==
    (pc = "done" /\ Valid /\ ~outcome.success) => gv = gv0

(* C8: when set_resource_limits returns False the script is not evaluated  *)
(* in-process.                                                             *)
C8_NoInProcessWithoutLimits == limitsOK = "False" => ~Called("exec")

(* C9: when _execute_in_process returns, the child has been reaped and     *)
(* the Manager process has been shut down.                                 *)
C9_ChildTornDown ==
    (pc = "done" /\ manager # "none") => child = "reaped" /\ manager = "shutdown"

C9_Witness == pc = "done" /\ manager = "shutdown" /\ exitcode = -SIGKILL

(* C10: the parent's calls after process.start() follow the escalation     *)
(* wait(timeout) -> terminate -> wait(1) -> kill -> wait: terminate only   *)
(* after the first wait timed out and the child was seen alive, kill only  *)
(* after terminate, a second timed-out wait and the child seen alive       *)
(* again, neither for a child that exited within the timeout; the outcome  *)
(* after a terminate is TimedOut.                                          *)
IsPrefix(a, b) == Len(a) <= Len(b) /\ a = SubSeq(b, 1, Len(a))
AfterStart(t) ==
    IF "process.start" \in Range(t)
    THEN SubSeq(t, 1 + (CHOOSE i \in DOMAIN t : t[i] = "process.start"), Len(t))
    ELSE <<>>
Overrun == <<"join(timeout): timed out", "is_alive: True", "terminate">>
Escalations ==
    {<<"join(timeout): exited", "is_alive: False">>,
     <<"join(timeout): timed out", "is_alive: False">>,
     Overrun \o <<"join(1): exited", "is_alive: False">>,
     Overrun \o <<"join(1): timed out", "is_alive: False">>,
     Overrun \o <<"join(1): timed out", "is_alive: True", "kill", "join()">>}
C10_EscalationOrder ==
    /\ \E e \in Escalations : IsPrefix(AfterStart(trace), e)
    /\ (pc = "done" /\ Called("terminate")) => outcome = TimedOut
    /\ (pc = "done" /\ Called("process.start") /\ ~Called("terminate")) =>
            outcome # TimedOut

C10_Witness == pc = "done" /\ AfterStart(trace) = Overrun \o
                   <<"join(1): timed out", "is_alive: True", "kill", "join()">>

(* C11: a MemoryError the script raises is returned as (False, a message   *)
(* that names the memory limit in MB, None) under either strategy unless   *)
(* the deadline also expired, and the host is neither killed nor left by   *)
(* an exception: it returns to its caller.                                 *)
MemoryMessages ==
    {Message("Code exceeded memory limit of %d MB", "", "", DEFAULT_MEMORY_LIMIT_MB),
     Message("MemoryError: Code exceeded memory limit of %d MB", "", "",
             DEFAULT_MEMORY_LIMIT_MB)}
C12_HostCeilingsAsBefore ==
    (pc = "done" /\ sigalrm) => hostLimits = NoLimits

(* C13: set_resource_limits returns (True, None) only when both the       *)
(* address-space and the CPU-time ceiling are in force in the calling      *)
(* process; without the resource facility, or when a setrlimit call        *)
(* fails, it returns (False, reason) and a reason is given.                *)
C13_LimiterReportsFailure ==
    /\ limitsOK = "True" => hostLimits = [as |-> TRUE, cpu |-> TRUE]
    /\ (limitsOK # "not called" /\ ~RESOURCE_AVAILABLE) =>
            limitsOK = "False" /\ hostLimits = NoLimits
    /\ (limitsOK # "not called" /\ hostLimits # [as |-> TRUE, cpu |-> TRUE]) =>
            limitsOK = "False"
    /\ pc = "limits" =>
          \A r \in LimiterResults(RESOURCE_AVAILABLE) :
            LET v == set_resource_limits(r, hostLimits) IN
              /\ v[1] => v[2] = [as |-> TRUE, cpu |-> TRUE] /\ v[3] = NoMessage
              /\ ~v[1] => v[3] # NoMessage

C13_Witness ==
    /\ pc = "done" /\ limitsOK = "False"
    /\ hostLimits = [as |-> TRUE, cpu |-> FALSE]

(* ------------------------- claims on validate_code -------------------- *)
RECURSIVE NodesOf(_)
NodesOf(n) == {n} \cup UNION {NodesOf(n.body[i]) : i \in DOMAIN n.body}
Returned(f) == lib = f \o " returned"
Parsed == Returned("validate_code") /\ ParseError(source) = "none"

TopLevelModule(name) == IF name = "os.path" THEN "os" ELSE name
ImportedModules(c) ==
    UNION {{TopLevelModule(n.body[i].arg) : i \in DOMAIN n.body} :
              n \in {m \in NodesOf(Module(c)) : m.op = "Import"}}
    \cup {TopLevelModule(n.arg) :
              n \in {m \in NodesOf(Module(c)) : m.op = "ImportFrom" /\ m.arg # ""}}
DeniedModules(c) == ImportedModules(c) \cap DANGEROUS_IMPORTS

Primitives == {"eval", "exec", "compile", "__import__", "open"}
CallsOf(c) == {n \in NodesOf(Module(c)) : n.op = "Call"}
(* callees that are primitives, called by name or through an attribute *)
PrimitiveCallees(c) ==
    {n.body[1].arg : n \in {m \in CallsOf(c) : m.body[1].op \in {"Name", "Attribute"}}}
    \cap Primitives
(* callees of the calls the validator refuses *)
RefusedCallees(c) ==
    {n.body[1].arg : n \in {m \in CallsOf(c) : ~CheckNode(m)[1]}}

(* C14 as stated: for every parsed source and every denylisted top-level   *)
(* module M it imports, validate_code rejects with a reason that names M.  *)
C14_ReasonNamesEveryDeniedModule ==
    Parsed =>
        \A M \in DeniedModules(source) :
            ~verdict[1] /\ verdict[3] = "none" /\ verdict[2].detail = M

(* C14 amended: a parsed source that imports a denylisted top-level module *)
(* (import M, import M.x, from M import, from M.x import, at any depth) is *)
(* rejected, and the reason names one refused construct of the source, the *)
(* first that ast.walk reaches: a denylisted module it imports or the      *)
(* callee of a call the validator refuses; hence M when the import of M is *)
(* the only one.                                                           *)
C14_DeniedImportRejected ==
    (Parsed /\ DeniedModules(source) # {}) =>
        /\ ~verdict[1] /\ verdict[3] = "none"
        /\ verdict[2].detail \in DeniedModules(source) \cup RefusedCallees(source)
        /\ (RefusedCallees(source) = {} /\ Cardinality(DeniedModules(source)) = 1) =>
                verdict[2].detail \in DeniedModules(source)

C14_Witness ==
    /\ Parsed
    /\ source = <<Import(<<"sys">>), FunctionDef(<<ImportFrom("os.path", <<"join">>)>>)>>
    /\ verdict[2].detail = "sys"

(* C15: every parsed source with a call whose callee is eval, exec,        *)
(* compile, __import__ or open, by name or through an attribute access, is *)
(* rejected.                                                               *)
C15_PrimitiveCallsRejected ==
    (Parsed /\ PrimitiveCallees(source) # {}) => ~verdict[1] /\ verdict[3] = "none"

(* C16: a parsed source is accepted only if no node of its tree, at any    *)
(* depth, is a denylisted import or a call to a primitive.                 *)
C16_NoPartialAcceptance ==
    (Parsed /\ verdict[1]) =>
        DeniedModules(source) = {} /\ PrimitiveCallees(source) = {}

(* C17: a source that parses, has no import statement and no call to       *)
(* eval, exec, compile, __import__ or open is accepted: (True, None).      *)
C17_CleanSourceAccepted ==
    (/\ Parsed
     /\ \A n \in NodesOf(Module(source)) : n.op \notin {"Import", "ImportFrom"}
     /\ PrimitiveCallees(source) = {}) =>
        verdict = <<TRUE, NoMessage, "none">>

C17_Witness ==
    /\ Parsed /\ verdict[1]
    /\ source = <<Expr(Name("eval")),
                  FunctionDef(<<Expr(Call(Attribute(Name("x"), "mean"), <<>>))>>)>>

(* C18: for a source that does not parse execute_code_securely raises no   *)
(* exception, evaluates nothing and returns (False, the 'Syntax error'     *)
(* reason, None).                                                          *)
C18_ParseFailureIsRejection ==
    ParseError(code) # "none" =>
        /\ pc # "raised"
        /\ ~Called("exec") /\ ~Called("process.start")
        /\ pc = "done" =>
              outcome = Outcome(FALSE,
                                Message("Syntax error in generated code: %s",
                                        "SyntaxError", "", 0),
                                PyNone)

(* C19: for the empty source execute_code_securely, unless the deadline    *)
(* expired, returns Success with the value None and leaves                 *)
(* global_variables as it was.                                             *)
C19_EmptySourceIsNoOp ==
    (pc = "done" /\ code = <<>> /\ outcome # TimedOut) =>
        outcome = Outcome(TRUE, NoMessage, PyNone) /\ gv = gv0

(* C20: the namespace create_restricted_globals returns has exactly the    *)
(* keys '__builtins__' and the capabilities passed as other than None;     *)
(* '__builtins__' is a dictionary whose names are in SAFE_BUILTINS, so     *)
(* without open, eval, exec, compile and __import__; each capability is    *)
(* bound to the handle passed; `result` is not bound.                      *)
C20_NamespaceExact ==
    Returned("create_restricted_globals") =>
        /\ DOMAIN restricted_globals =
              {"__builtins__"} \cup {c \in CapabilityNames : capabilities[c] # PyNone}
        /\ DOMAIN restricted_globals["__builtins__"] \subseteq SAFE_BUILTINS
        /\ DOMAIN restricted_globals["__builtins__"] \cap Primitives = {}
        /\ \A c \in CapabilityNames :
              capabilities[c] # PyNone => restricted_globals[c] = capabilities[c]
        /\ "result" \notin DOMAIN restricted_globals

C20_Witness ==
    /\ Returned("create_restricted_globals")
    /\ capabilities["pl"] = "<module A>" /\ capabilities["st"] = "<module B>"
    /\ capabilities["pd"] = PyNone
    /\ DOMAIN restricted_globals = {"__builtins__", "pl", "st"}

(* ---------------------- claims on validate_user_input ------------------ *)
Checked == Returned("validate_user_input")
EmptyReason == Message("Input cannot be empty", "", "", 0)
TooLongReason ==
    Message("Input is too long (max %d characters)", "", "", MAX_INPUT_LENGTH)
PatternTexts == {suspicious_patterns[k].text : k \in DOMAIN suspicious_patterns}
(* the patterns that occur in a text as it is written *)
Written(t) ==
    {suspicious_patterns[k].text :
        k \in {j \in DOMAIN suspicious_patterns : Occurs(suspicious_patterns[j].spelt, t)}}
(* the patterns that occur in a text when letter case is ignored *)
FoldCase(t) == [i \in DOMAIN t |-> IF t[i] = "EV" THEN "ev" ELSE t[i]]
WrittenInAnyCase(t) == Written(FoldCase(t))

(* C21 as stated: a text is accepted if and only if it is not empty after  *)
(* trimming, is at most 10000 characters long and contains none of the     *)
(* suspicious substrings.                                                  *)
C21_AcceptsIffClean ==
    Checked =>
        (verdict[1] <=> /\ ~IsEmptyInput(user_input)
                        /\ TextLength(user_input) <= MAX_INPUT_LENGTH
                        /\ Written(user_input) = {})

(* C21 amended: the substrings are looked for in the lower-cased text, so  *)
(* a text is accepted if and only if it is not empty after trimming, is at *)
(* most 10000 characters long and contains none of the suspicious          *)
(* substrings in any letter case.  The reason is None on acceptance and    *)
(* otherwise names the first check that failed: empty, then too long, then *)
(* a pattern that occurs in the text.                                      *)
C21_AcceptsIffCleanInAnyCase ==
    Checked =>
        /\ verdict[1] <=> /\ ~IsEmptyInput(user_input)
                          /\ TextLength(user_input) <= MAX_INPUT_LENGTH
                          /\ WrittenInAnyCase(user_input) = {}
        /\ verdict[1] => verdict[2] = NoMessage
        /\ IsEmptyInput(user_input) => verdict[2] = EmptyReason
        /\ (~IsEmptyInput(user_input) /\ TextLength(user_input) > MAX_INPUT_LENGTH) =>
                verdict[2] = TooLongReason
        /\ (~verdict[1] /\ verdict[2] \notin {EmptyReason, TooLongReason}) =>
                verdict[2].detail \in WrittenInAnyCase(user_input)

C21_Witness ==
    /\ Checked /\ user_input = <<"mean", "EV", "al(">>
    /\ verdict[2].detail = "eval("

(* C22: in the chat flow a text that validate_user_input rejects is not    *)
(* passed to the agent, is not appended to the chat history and causes no  *)
(* execution; the agent is called only after the pre-filter accepted the   *)
(* text, and only with that text.                                          *)
C22_RejectedTextGoesNowhere ==
    /\ ~validate_user_input(user_input)[1] =>
          /\ agent_inputs = <<>>
          /\ chat_history \in PriorHistories
          /\ executions = 0
          /\ chat \in {"chat_input", "validate", "returned", "analysis"}
    /\ (agent_inputs # <<>> \/ executions > 0 \/ chat_history \notin PriorHistories) =>
          /\ verdict = validate_user_input(user_input) /\ verdict[1]
          /\ \A i \in DOMAIN agent_inputs : agent_inputs[i] = user_input

C22_Witness ==
    /\ chat = "returned" /\ ~verdict[1]
    /\ user_input = <<"mean", "subprocess.">>
    /\ chat_history # <<>>

(* C23: in the child-process strategy, when the child's exit status is not *)
(* zero or the child wrote no status into return_dict, the outcome is      *)
(* (False, message, None) and global_variables is as before the call.      *)
C23_ChildFailureIsFailure ==
    /\ (pc = "done" /\ manager # "none"
                    /\ (exitcode # 0 \/ return_dict.success = "absent")) =>
          /\ ~outcome.success
          /\ outcome.error # NoMessage
          /\ outcome.result = PyNone
          /\ gv = gv0
    /\ pc = "exitcode" =>
          LET silent == ChildOutcome(exitcode, [return_dict EXCEPT !.success = "absent"])
          IN  ~silent.success /\ silent.error # NoMessage /\ silent.result = PyNone

C23_Witness ==
    /\ pc = "done" /\ exitcode = -SIGXCPU /\ return_dict.success = "absent"
    /\ local_vars["x"] = ScriptValue
    /\ outcome.error.text = "Code execution failed with exit code %d"

(* C24: when the CPU-time ceiling trips while the script runs, the host    *)
(* process is not ended by the signal, and the outcome of the child-process *)
(* strategy is not the generic 'failed with exit code' failure.            *)
C24_CpuLimitIsResourceExceeded ==
    /\ pc # "killed"
    /\ (pc = "done" /\ exitcode = -SIGXCPU) =>
          outcome.error.text # "Code execution failed with exit code %d"

(* C25: in the in-process strategy, once the deadline signal has arrived   *)
(* while the script was running, the script runs no longer, whatever       *)
(* exception handling it has, and the outcome returned is TimedOut.        *)
C25_ScriptCannotSuppressDeadline ==
    (sigalrm /\ elapsed) =>
        /\ pc # "exec"
        /\ pc = "done" => outcome = TimedOut

(* C26: the capability set is closed at run time: whatever script the     *)
(* validator accepted, no name of either namespace is ever bound to a      *)
(* module of the host, and a script whose first failing statement is an    *)
(* import ends with the ImportError as its failure.                        *)
HostHandles == {OsModule}
C26_CapabilitySetClosed ==
    /\ \A n \in Names : gv[n] \notin HostHandles /\ local_vars[n] \notin HostHandles
    /\ (pc = "done" /\ exc = "ImportError") =>
           /\ ~outcome.success
           /\ outcome.error.etype = "ImportError"

(* C27: a source that parses and holds a function definition, an async    *)
(* function definition, a class definition, a lambda or a delete           *)
(* statement, each a member of DANGEROUS_NODE_TYPES, is rejected.          *)
StricterNodeKinds ==
    DANGEROUS_NODE_TYPES \cap
        {"FunctionDef", "AsyncFunctionDef", "ClassDef", "Lambda", "Delete"}
C27_StricterDenylistEnforced ==
    (Parsed /\ \E n \in NodesOf(Module(source)) : n.op \in StricterNodeKinds) =>
        ~verdict[1]

(* C28 as stated: in the child-process strategy, when the child reported  *)
(* success the parent returns the child's value of `result` and every name *)
(* the script bound in the child is bound in global_variables, the others  *)
(* as before; when the child reported a script error the parent returns    *)
(* the child's message and global_variables is as before the call.         *)
Committed ==
    /\ outcome = Outcome(TRUE, NoMessage, Get(local_vars, "result"))
    /\ \A n \in Names :
          gv[n] = IF local_vars[n] # Unbound THEN local_vars[n] ELSE gv0[n]
Discarded ==
    /\ outcome = Outcome(FALSE, return_dict.error, PyNone)
    /\ gv = gv0
C29_SignalAtAnyPointIsWellFormed ==
    Called("signal.alarm") =>
        /\ pc # "raised"
        /\ pc = "done" => handler = "old_handler"
        /\ (pc = "done" /\ scriptErr = "none" /\ ~elapsed) =>
               \/ outcome.success
               \/ ~outcome.success /\ gv = gv0

(* C30: the two strategies are observationally equivalent.  For a run of  *)
(* the child-process strategy that ended without the deadline or a signal, *)
(* the outcome has the variant and the result value that the in-process    *)
(* branch returns for the same script and the same initial                 *)
(* global_variables, and global_variables ends in the same state: the      *)
(* in-process branch evaluates the script in the caller's dictionary, so   *)
(* it ends as the dictionary before the call updated with the script's     *)
(* bindings.                                                               *)
Variant(o) ==
    CASE o.success -> "Success"
      [] ~o.success /\ o.error = TimedOutMessage(timeout) -> "TimedOut"
      [] ~o.success /\ o.error \in MemoryMessages -> "ResourceExceeded"
      [] OTHER -> "RuntimeFailure"
C30_StrategiesEquivalent ==
    (/\ pc = "done" /\ manager # "none"
     /\ exitcode = 0 /\ ~Called("terminate") /\ return_dict.success # "absent") =>
        LET inProcessNamespace ==
                [n \in Names |-> IF local_vars[n] # Unbound THEN local_vars[n]
                                                            ELSE gv0[n]]
            inProcess == InProcessOutcome(scriptErr, inProcessNamespace, timeout)
        IN  /\ Variant(outcome) = Variant(inProcess)
            /\ outcome.result = inProcess.result
            /\ gv = inProcessNamespace

====
